---- MODULE Spec2Model ----
(***************************************************************************)
(* Model of src/dinox_api.py: the DINO-X client.  One call of one of the   *)
(* five functions (detect_objects_async, create_region_vl_task,            *)
(* get_task_result, detect_objects, get_region_descriptions) is followed   *)
(* from its entry to its return or raise.  The remote service is the       *)
(* environment: every POST and every GET is answered by a response chosen  *)
(* from PostResponses / GetResponses.                                      *)
(***************************************************************************)
EXTENDS Integers, Sequences, FiniteSets, TLC

(* ------------------------------ bounds --------------------------------- *)
\* largest max_retries a caller passes to get_task_result explicitly
MaxAttempts == 3

(* ------------------------- program constants --------------------------- *)
\* default of the max_retries parameter of get_task_result
DefaultMaxRetries == 30
\* the HTTP status both submit and poll accept
HTTP_OK == 200

\* Python's None, as returned by os.getenv and dict.get for a missing key
None == "None"
\* the hardcoded fallback token of line 16 (a non-empty placeholder string)
PlaceholderToken == "PLACEHOLDER"

\* values of the DINOX_API_TOKEN environment variable: unset, empty, set
EnvValues == {None, "", "tok"}
\* session ids a caller passes in (None is the parameter's default)
SessionArgs == {None, "s1"}
\* session id the service reports in data.session_id
ServiceSession == "s2"
\* task ids the service hands out
TaskIds == {"t1", "t2"}

\* Python truthiness of an optional string
Truthy(s) == s # None /\ s # ""

\* API_TOKEN = os.getenv("DINOX_API_TOKEN") or "<placeholder>"
LoadToken(e) == IF Truthy(e) THEN e ELSE PlaceholderToken

(* ------------------------------ results -------------------------------- *)
\* A JSON result value.  kind: "null" (JSON null), "array" (an empty JSON
\* array, on which the test "objects" in result is false) or "map"; objects: whether
\* the map has the key "objects" ("absent"), has it with null ("null") or
\* with a list ("list"); items: the kinds of the list's elements.
NoResult == [kind |-> "none", objects |-> "absent", items |-> <<>>]
NullResult == [kind |-> "null", objects |-> "absent", items |-> <<>>]
EmptyMap == [kind |-> "map", objects |-> "absent", items |-> <<>>]
EmptyObjects == [kind |-> "map", objects |-> "list", items |-> <<>>]

ResultValues ==
    { NullResult, EmptyMap, EmptyObjects,
      [kind |-> "array", objects |-> "absent", items |-> <<>>],
      [kind |-> "map", objects |-> "list", items |-> <<"dict">>],
      [kind |-> "map", objects |-> "list", items |-> <<"scalar">>],
      [kind |-> "map", objects |-> "null", items |-> <<>>] }

(* ------------------------------ outcomes ------------------------------- *)
\* How a function ends: kind "return" or "raise" ("none" while running).
NoOut == [kind |-> "none", exc |-> "", detail |-> "", task |-> "",
          result |-> NoResult, session |-> ""]
Raise(e, d) == [NoOut EXCEPT !.kind = "raise", !.exc = e, !.detail = d]
ReturnTask(t) == [NoOut EXCEPT !.kind = "return", !.task = t]
ReturnPair(r, s) == [NoOut EXCEPT !.kind = "return", !.result = r, !.session = s]

(* ------------------------- service responses --------------------------- *)
\* Response to a POST.  net "error": requests.post raised; body: the JSON
\* text parses to an object, to an array, or does not parse; envKeys: keys
\* of the envelope; dataNull: data is JSON null; dataKeys: keys of data.
BasePost == [net |-> "ok", http |-> 200, body |-> "object",
             envKeys |-> {"code", "data"}, code |-> 0, dataNull |-> FALSE,
             dataKeys |-> {}, task_uuid |-> ""]
NoPost == [BasePost EXCEPT !.net = "none"]

PostResponses ==
    { [BasePost EXCEPT !.net = "error"],
      [BasePost EXCEPT !.http = 500],
      [BasePost EXCEPT !.body = "array"],
      [BasePost EXCEPT !.body = "invalid"],
      [BasePost EXCEPT !.code = 1],
      [BasePost EXCEPT !.envKeys = {"data"}],
      [BasePost EXCEPT !.envKeys = {"code"}],
      [BasePost EXCEPT !.dataNull = TRUE],
      BasePost }
    \cup { [BasePost EXCEPT !.dataKeys = {"task_uuid"}, !.task_uuid = t] :
           t \in TaskIds }

\* Response to a GET of the task status.
BaseGet == [net |-> "ok", http |-> 200, body |-> "object",
            envKeys |-> {"code", "data"}, code |-> 0, dataNull |-> FALSE,
            dataKeys |-> {}, status |-> "", result |-> NoResult,
            session_id |-> "", error |-> ""]
NoGet == [BaseGet EXCEPT !.net = "none"]

StatusGet(s) == [BaseGet EXCEPT !.dataKeys = {"status"}, !.status = s]

SuccessResponses ==
    LET S == StatusGet("success")
        WithSession(r) ==
            { r, [r EXCEPT !.dataKeys = @ \cup {"session_id"},
                           !.session_id = ServiceSession] }
    IN  UNION { WithSession(r) :
                r \in {S} \cup { [S EXCEPT !.dataKeys = @ \cup {"result"},
                                           !.result = v] : v \in ResultValues } }

FailedResponses ==
    LET F == StatusGet("failed")
    IN  { F, [F EXCEPT !.dataKeys = @ \cup {"error"}, !.error = "x"] }

GetResponses ==
    { [BaseGet EXCEPT !.net = "error"],
      [BaseGet EXCEPT !.http = 500],
      [BaseGet EXCEPT !.body = "array"],
      [BaseGet EXCEPT !.body = "invalid"],
      [BaseGet EXCEPT !.code = 1],
      [BaseGet EXCEPT !.envKeys = {"data"}],
      [BaseGet EXCEPT !.envKeys = {"code"}],
      [BaseGet EXCEPT !.dataNull = TRUE],
      BaseGet,
      StatusGet("waiting"), StatusGet("running"), StatusGet("queued") }
    \cup SuccessResponses \cup FailedResponses

\* response_data.get("code") != 0 is false only for a present code of 0
CodeIsZero(r) == "code" \in r.envKeys /\ r.code = 0
\* data.get(key): None when the key is absent
DataStatus(r) == IF "status" \in r.dataKeys THEN r.status ELSE None
DataSession(r) == IF "session_id" \in r.dataKeys THEN r.session_id ELSE None

(* ----------------------------- submission ------------------------------ *)
\* detect_objects_async, from the POST to the return or raise.
DetectSubmitOutcome(r) ==
    IF r.net = "error" THEN Raise("ConnectionError", "")
    ELSE IF r.http # HTTP_OK THEN Raise("ApiError", "status code")
    ELSE IF r.body = "invalid" THEN Raise("JSONDecodeError", "")
    ELSE IF r.body = "array" THEN Raise("AttributeError", "")
    ELSE IF ~CodeIsZero(r) THEN Raise("ApiError", "code")
    ELSE IF "data" \notin r.envKeys THEN Raise("ApiError", "missing data")
    ELSE IF r.dataNull THEN Raise("TypeError", "")
    ELSE IF "task_uuid" \notin r.dataKeys
         THEN Raise("ApiError", "missing task_uuid")
    ELSE ReturnTask(r.task_uuid)

\* create_region_vl_task, from the POST to the return or raise.
RegionSubmitOutcome(r) ==
    IF r.net = "error" THEN Raise("ConnectionError", "")
    ELSE IF r.http # HTTP_OK THEN Raise("ApiError", "status code")
    ELSE IF r.body = "invalid" THEN Raise("JSONDecodeError", "")
    ELSE IF r.body = "array" THEN Raise("AttributeError", "")
    ELSE IF ~CodeIsZero(r) THEN Raise("ApiError", "code")
    ELSE IF "data" \notin r.envKeys THEN Raise("ApiError", "missing data")
    ELSE IF r.dataNull THEN Raise("TypeError", "")
    ELSE IF "task_uuid" \notin r.dataKeys
         THEN Raise("ApiError", "missing task_uuid")
    ELSE ReturnTask(r.task_uuid)

(* ------------------------------- polling ------------------------------- *)
\* variant: the loop bound is off by one
LoopContinuesInclusive(retry_, max_) == retry_ <= max_

\* for retry in range(max_retries): the loop body runs while retry < max
LoopContinues(retry_, max_) == retry_ < max_

\* The three transient faults of one attempt: sleep and continue.
TransientFault(r) ==
    \/ r.http # HTTP_OK
    \/ r.body = "object" /\ ~CodeIsZero(r)
    \/ r.body = "object" /\ "data" \notin r.envKeys

\* variant: the success branch drops the result
SuccessReturnEmpty(r) == ReturnPair(EmptyMap, DataSession(r))

\* variant: the success branch raises when the result is missing
SuccessReturnStrict(r) ==
    IF "result" \notin r.dataKeys
    THEN Raise("ApiError", "missing result")
    ELSE ReturnPair(r.result, DataSession(r))

\* variant: a missing result is replaced by an empty objects list
SuccessReturnEmptyObjects(r) ==
    IF "result" \notin r.dataKeys
    THEN ReturnPair(EmptyObjects, DataSession(r))
    ELSE ReturnPair(r.result, DataSession(r))

\* What the success branch returns.
SuccessReturn(r) ==
    IF "result" \notin r.dataKeys
    THEN ReturnPair(EmptyMap, DataSession(r))
    ELSE ReturnPair(r.result, DataSession(r))

\* data.get("error", "Unknown error")
ErrorMessage(r) == IF "error" \in r.dataKeys THEN r.error ELSE "Unknown error"

\* variant: the failed branch ignores data.error
FailedRaiseDefault(r) == Raise("TaskFailedError", "Unknown error")

\* What the failed branch raises.
FailedRaise(r) == Raise("TaskFailedError", ErrorMessage(r))

\* variant: a transient fault raises, as it does in the submit functions
AttemptOutcomeStrict(r) ==
    IF r.net = "error" THEN Raise("ConnectionError", "")
    ELSE IF TransientFault(r) THEN Raise("ApiError", "")
    ELSE IF r.body = "invalid" THEN Raise("JSONDecodeError", "")
    ELSE IF r.body = "array" THEN Raise("AttributeError", "")
    ELSE IF r.dataNull THEN Raise("AttributeError", "")
    ELSE IF DataStatus(r) = "success" THEN SuccessReturn(r)
    ELSE IF DataStatus(r) = "failed" THEN FailedRaise(r)
    ELSE NoOut

\* variant: a status outside the four known ones raises
AttemptOutcomeRejectsUnknown(r) ==
    IF r.net = "error" THEN Raise("ConnectionError", "")
    ELSE IF TransientFault(r) THEN NoOut
    ELSE IF r.body = "invalid" THEN Raise("JSONDecodeError", "")
    ELSE IF r.body = "array" THEN Raise("AttributeError", "")
    ELSE IF r.dataNull THEN Raise("AttributeError", "")
    ELSE IF DataStatus(r) = "success" THEN SuccessReturn(r)
    ELSE IF DataStatus(r) = "failed" THEN FailedRaise(r)
    ELSE IF DataStatus(r) \in {"waiting", "running"} THEN NoOut
    ELSE Raise("ApiError", "unknown status")

\* One attempt of get_task_result after its GET was answered by r: the
\* outcome that ends polling, or NoOut when the attempt ends in a sleep.
AttemptOutcome(r) ==
    IF r.net = "error" THEN Raise("ConnectionError", "")
    ELSE IF TransientFault(r) THEN NoOut
    ELSE IF r.body = "invalid" THEN Raise("JSONDecodeError", "")
    ELSE IF r.body = "array" THEN Raise("AttributeError", "")
    ELSE IF r.dataNull THEN Raise("AttributeError", "")
    ELSE IF DataStatus(r) = "success" THEN SuccessReturn(r)
    ELSE IF DataStatus(r) = "failed" THEN FailedRaise(r)
    ELSE NoOut

\* raise Exception("Task timed out ...") after the loop
TimeoutRaise == Raise("TaskTimeoutError", "")

\* The branch of the loop body a non-terminal response takes.
ResponseClass(r) ==
    IF TransientFault(r) THEN "fault"
    ELSE IF DataStatus(r) \in {"waiting", "running"} THEN DataStatus(r)
    ELSE "unknown"

(* ------------------------ fail-open entry points ----------------------- *)
\* variant: the fallback loses the caller's session id
FallbackDropsSession(sid) == ReturnPair(EmptyObjects, None)

\* except Exception: return {"objects": []}, session_id
Fallback(sid) == ReturnPair(EmptyObjects, sid)

\* The printing loop of detect_objects raises on a result that is None, on
\* objects that is None and on an element that is not a mapping.
PrintRaises(res) ==
    \/ res.kind = "null"
    \/ res.objects = "null"
    \/ res.objects = "list" /\ \E i \in 1..Len(res.items) : res.items[i] # "dict"

\* variant: detect_objects lets the exception of get_task_result through
DetectFinishReraise(p, sid) ==
    IF p.kind = "raise" THEN p
    ELSE IF PrintRaises(p.result) THEN Fallback(sid)
    ELSE ReturnPair(p.result, p.session)

\* detect_objects after get_task_result ended with p.
DetectFinish(p, sid) ==
    IF p.kind = "raise" THEN Fallback(sid)
    ELSE IF PrintRaises(p.result) THEN Fallback(sid)
    ELSE ReturnPair(p.result, p.session)

\* get_region_descriptions after get_task_result ended with p.
RegionFinish(p, sid) ==
    IF p.kind = "raise" THEN Fallback(sid)
    ELSE ReturnPair(p.result, p.session)

(* --------------------------- request payload --------------------------- *)
\* values a caller passes as prompt_type, prompt_text, prompt_universal and
\* session_id; "0" stands for the integer 0, "1" for the integer 1
PromptTypeArgs == {None, "text", "universal"}
PromptTextArgs == {None, "", "cat"}
PromptUniversalArgs == {None, "0", "1"}
PayloadSessionArgs == {None, "", "s1"}

\* Python truthiness of an optional string or integer
TruthyValue(v) == v \notin {None, "", "0"}

\* a prompt dict: its keys and the values under them
TypeOnlyPrompt(pt) ==
    [keys |-> {"type"}, type |-> pt, text |-> "", universal |-> ""]
NoPrompt == [keys |-> {}, type |-> "", text |-> "", universal |-> ""]

\* variant: the value fields are added without looking at the type
BuildPromptNoTypeCheck(pt, txt, uni) ==
    LET withText == IF TruthyValue(txt)
                    THEN [TypeOnlyPrompt(pt) EXCEPT !.keys = @ \cup {"text"},
                                                    !.text = txt]
                    ELSE TypeOnlyPrompt(pt)
    IN  IF TruthyValue(uni)
        THEN [withText EXCEPT !.keys = @ \cup {"universal"}, !.universal = uni]
        ELSE withText

\* prompt = {"type": prompt_type}, then the if / elif that adds one value
BuildPrompt(pt, txt, uni) ==
    IF pt = "text" /\ TruthyValue(txt)
    THEN [TypeOnlyPrompt(pt) EXCEPT !.keys = @ \cup {"text"}, !.text = txt]
    ELSE IF pt = "universal" /\ TruthyValue(uni)
    THEN [TypeOnlyPrompt(pt) EXCEPT !.keys = @ \cup {"universal"},
                                    !.universal = uni]
    ELSE TypeOnlyPrompt(pt)

\* the arguments of a submit call that reach the payload
BuildArgs ==
    [fn : {"detect_objects_async", "create_region_vl_task"},
     prompt_type : PromptTypeArgs, prompt_text : PromptTextArgs,
     prompt_universal : PromptUniversalArgs, session_id : PayloadSessionArgs]
NoArgs == [fn |-> "", prompt_type |-> None, prompt_text |-> None,
           prompt_universal |-> None, session_id |-> None]

NoPayload == [keys |-> {}, prompt |-> NoPrompt, session_id |-> ""]

\* if session_id: payload["session_id"] = session_id
AddSession(pl, sid) ==
    IF TruthyValue(sid)
    THEN [pl EXCEPT !.keys = @ \cup {"session_id"}, !.session_id = sid]
    ELSE pl

\* the payload detect_objects_async posts
DetectPayload(a) ==
    AddSession(
        [keys |-> {"image", "targets", "bbox_threshold", "iou_threshold",
                   "prompt", "model"},
         prompt |-> BuildPrompt(a.prompt_type, a.prompt_text, a.prompt_universal),
         session_id |-> ""],
        a.session_id)

\* the payload create_region_vl_task posts: the prompt only for a truthy type
RegionPayload(a) ==
    AddSession(
        IF TruthyValue(a.prompt_type)
        THEN [keys |-> {"image", "regions", "targets", "model", "prompt"},
              prompt |-> BuildPrompt(a.prompt_type, a.prompt_text,
                                     a.prompt_universal),
              session_id |-> ""]
        ELSE [keys |-> {"image", "regions", "targets", "model"},
              prompt |-> NoPrompt, session_id |-> ""],
        a.session_id)

(* ------------------------------- state --------------------------------- *)
VARIABLES
    env,          \* value of the DINOX_API_TOKEN environment variable
    API_TOKEN,    \* the module global set at import
    entry,        \* the function the caller invoked ("" before the call)
    pc,           \* position of the call: idle, submit, poll, loop, sleep, done
    session_id,   \* the session_id argument of the call
    task_uuid,    \* the task id get_task_result polls
    max_retries,  \* the max_retries argument of get_task_result
    retry,        \* the loop variable of get_task_result
    posts,        \* number of POSTs sent
    fetches,      \* number of status GETs sent
    sleeps,       \* number of time.sleep calls
    lastPost,     \* the response to the POST
    lastGet,      \* the response to the latest GET
    seen,         \* classes of the responses to the GETs before the latest
    submitOut,    \* how the submit function ended
    pollOut,      \* how get_task_result ended
    out,          \* how the invoked function ended
    getTask       \* the task id in the URL of the latest GET

\* a submit call followed only as far as its payload
VARIABLES
    bargs,        \* the arguments of the call
    payload       \* the payload it built (NoPayload before)

\* calls running in several threads at once
VARIABLES
    threadCtl,    \* per thread: the function it runs and its position
    frames,       \* per frame: the locals session_id, task_uuid, max_retries, retry
    called,       \* per thread: the arguments of its call
    heard,        \* per thread: the responses its own requests received
    returned      \* per thread: what its call returned or raised

vars == <<env, API_TOKEN, entry, pc, session_id, task_uuid, max_retries,
          retry, posts, fetches, sleeps, lastPost, lastGet, seen,
          submitOut, pollOut, out, getTask, bargs, payload,
          threadCtl, frames, called, heard, returned>>

\* the variables the calls of the single-call machine leave alone
others == <<bargs, payload, threadCtl, frames, called, heard, returned>>

\* the threads that call the client at the same time
Threads == {1, 2}

\* a frame before the call, a thread before its call
NoFrame == [session_id |-> None, task_uuid |-> "", max_retries |-> 0, retry |-> 0]
NoCall == [fn |-> "", session_id |-> None, task_uuid |-> "", max_retries |-> 0]
NoHeard == [post |-> NoPost, gets |-> 0, last |-> NoGet, task |-> ""]
IdleCtl == [entry |-> "", pc |-> "idle"]

TokenError == Raise("ConfigurationError", "API token not found")

Wrappers == {"detect_objects", "get_region_descriptions"}
Submitters == {"detect_objects_async", "create_region_vl_task"}

\* The state after import: load_dotenv() and line 16 have run.
SeqInit ==
    /\ env \in EnvValues
    /\ API_TOKEN = LoadToken(env)
    /\ entry = ""
    /\ pc = "idle"
    /\ session_id = None
    /\ task_uuid = ""
    /\ max_retries = 0
    /\ retry = 0
    /\ posts = 0
    /\ fetches = 0
    /\ sleeps = 0
    /\ lastPost = NoPost
    /\ lastGet = NoGet
    /\ seen = {}
    /\ submitOut = NoOut
    /\ pollOut = NoOut
    /\ out = NoOut
    /\ getTask = ""

\* no payload is being built
PayloadIdle == bargs = NoArgs /\ payload = NoPayload

\* no thread has called yet
ThreadsIdle ==
    /\ threadCtl = [t \in Threads |-> IdleCtl]
    /\ frames = [t \in Threads |-> NoFrame]
    /\ called = [t \in Threads |-> NoCall]
    /\ heard = [t \in Threads |-> NoHeard]
    /\ returned = [t \in Threads |-> NoOut]

Init == SeqInit /\ PayloadIdle /\ ThreadsIdle

(* ------------------------------ the calls ------------------------------ *)
\* A caller invokes detect_objects: the prints and the token warning change
\* nothing; control reaches the call of detect_objects_async.
CallDetectObjects(sid) ==
    /\ pc = "idle"
    /\ entry' = "detect_objects"
    /\ session_id' = sid
    /\ pc' = "submit"
    /\ UNCHANGED <<env, API_TOKEN, task_uuid, max_retries, retry, posts,
                   fetches, sleeps, lastPost, lastGet, seen, submitOut,
                   pollOut, out>>
    /\ UNCHANGED <<getTask, others>>

\* A caller invokes get_region_descriptions.
CallGetRegionDescriptions(sid) ==
    /\ pc = "idle"
    /\ entry' = "get_region_descriptions"
    /\ session_id' = sid
    /\ pc' = "submit"
    /\ UNCHANGED <<env, API_TOKEN, task_uuid, max_retries, retry, posts,
                   fetches, sleeps, lastPost, lastGet, seen, submitOut,
                   pollOut, out>>
    /\ UNCHANGED <<getTask, others>>

\* A caller invokes detect_objects_async directly.
CallDetectObjectsAsync(sid) ==
    /\ pc = "idle"
    /\ entry' = "detect_objects_async"
    /\ session_id' = sid
    /\ pc' = "submit"
    /\ UNCHANGED <<env, API_TOKEN, task_uuid, max_retries, retry, posts,
                   fetches, sleeps, lastPost, lastGet, seen, submitOut,
                   pollOut, out>>
    /\ UNCHANGED <<getTask, others>>

\* A caller invokes create_region_vl_task directly.
CallCreateRegionVlTask(sid) ==
    /\ pc = "idle"
    /\ entry' = "create_region_vl_task"
    /\ session_id' = sid
    /\ pc' = "submit"
    /\ UNCHANGED <<env, API_TOKEN, task_uuid, max_retries, retry, posts,
                   fetches, sleeps, lastPost, lastGet, seen, submitOut,
                   pollOut, out>>
    /\ UNCHANGED <<getTask, others>>

\* A caller invokes get_task_result(t, m) directly.
CallGetTaskResult(t, m) ==
    /\ pc = "idle"
    /\ entry' = "get_task_result"
    /\ task_uuid' = t
    /\ max_retries' = m
    /\ pc' = "poll"
    /\ UNCHANGED <<env, API_TOKEN, session_id, retry, posts, fetches, sleeps,
                   lastPost, lastGet, seen, submitOut, pollOut, out>>
    /\ UNCHANGED <<getTask, others>>

(* ------------------------------ submission ----------------------------- *)
\* variant: a failed submission is tried again
AfterSubmitRetry(o) == IF o.kind = "return" THEN "poll" ELSE "submit"

\* variant: the wrapper polls a fixed task id, not the one just returned
PollArgumentStale(o) == "t1"

\* get_task_result(task_uuid): the id the submit function returned
PollArgument(o) == o.task

\* Where a wrapper goes after its submit function ended with o.
AfterSubmit(o) == IF o.kind = "return" THEN "poll" ELSE "done"

\* The submit function ended with o: a direct call ends with o; a wrapper
\* goes on to get_task_result(task_uuid) with the default budget, or catches
\* the exception and returns the fallback.
SubmitEnds(o) ==
    /\ submitOut' = o
    /\ IF entry \in Submitters
       THEN /\ pc' = "done"
            /\ out' = o
            /\ UNCHANGED <<task_uuid, max_retries>>
       ELSE /\ pc' = AfterSubmit(o)
            /\ out' = IF o.kind = "return" THEN NoOut ELSE Fallback(session_id)
            /\ task_uuid' = IF o.kind = "return" THEN PollArgument(o)
                                                  ELSE task_uuid
            /\ max_retries' = IF o.kind = "return" THEN DefaultMaxRetries
                                                   ELSE max_retries

\* detect_objects_async: the token check, then one POST and its handling.
DetectObjectsAsync ==
    /\ pc = "submit"
    /\ entry \in {"detect_objects", "detect_objects_async"}
    /\ IF ~Truthy(API_TOKEN)
       THEN /\ SubmitEnds(TokenError)
            /\ UNCHANGED <<posts, lastPost>>
       ELSE \E r \in PostResponses :
                /\ posts' = posts + 1
                /\ lastPost' = r
                /\ SubmitEnds(DetectSubmitOutcome(r))
    /\ UNCHANGED <<env, API_TOKEN, entry, session_id, retry, fetches, sleeps,
                   lastGet, seen, pollOut>>
    /\ UNCHANGED <<getTask, others>>

\* create_region_vl_task: the token check, then one POST and its handling.
CreateRegionVlTask ==
    /\ pc = "submit"
    /\ entry \in {"get_region_descriptions", "create_region_vl_task"}
    /\ IF ~Truthy(API_TOKEN)
       THEN /\ SubmitEnds(TokenError)
            /\ UNCHANGED <<posts, lastPost>>
       ELSE \E r \in PostResponses :
                /\ posts' = posts + 1
                /\ lastPost' = r
                /\ SubmitEnds(RegionSubmitOutcome(r))
    /\ UNCHANGED <<env, API_TOKEN, entry, session_id, retry, fetches, sleeps,
                   lastGet, seen, pollOut>>
    /\ UNCHANGED <<getTask, others>>

(* ------------------------------- polling ------------------------------- *)
\* get_task_result ended with o: a direct call ends with o, a wrapper with
\* what it makes of o.
PollEnds(o) ==
    /\ pollOut' = o
    /\ pc' = "done"
    /\ out' = CASE entry = "detect_objects" -> DetectFinish(o, session_id)
                [] entry = "get_region_descriptions" -> RegionFinish(o, session_id)
                [] OTHER -> o

\* get_task_result up to its loop: the token check.
GetTaskResultEnter ==
    /\ pc = "poll"
    /\ IF ~Truthy(API_TOKEN)
       THEN PollEnds(TokenError) /\ UNCHANGED retry
       ELSE pc' = "loop" /\ retry' = 0 /\ UNCHANGED <<pollOut, out>>
    /\ UNCHANGED <<env, API_TOKEN, entry, session_id, task_uuid, max_retries,
                   posts, fetches, sleeps, lastPost, lastGet, seen, submitOut>>
    /\ UNCHANGED <<getTask, others>>

\* One attempt: the GET and the handling of its response, up to the sleep,
\* the return or the raise.
PollAttempt ==
    /\ pc = "loop"
    /\ LoopContinues(retry, max_retries)
    /\ \E r \in GetResponses :
        /\ fetches' = fetches + 1
        /\ lastGet' = r
        /\ seen' = IF fetches = 0 THEN {} ELSE seen \cup {ResponseClass(lastGet)}
        /\ IF AttemptOutcome(r).kind = "none"
           THEN pc' = "sleep" /\ UNCHANGED <<pollOut, out>>
           ELSE PollEnds(AttemptOutcome(r))
    /\ UNCHANGED <<env, API_TOKEN, entry, session_id, task_uuid, max_retries,
                   retry, posts, sleeps, lastPost, submitOut>>
    /\ getTask' = task_uuid
    /\ UNCHANGED others

\* time.sleep(retry_interval), then the next value of the loop variable.
PollSleep ==
    /\ pc = "sleep"
    /\ sleeps' = sleeps + 1
    /\ retry' = retry + 1
    /\ pc' = "loop"
    /\ UNCHANGED <<env, API_TOKEN, entry, session_id, task_uuid, max_retries,
                   posts, fetches, lastPost, lastGet, seen, submitOut,
                   pollOut, out>>
    /\ UNCHANGED <<getTask, others>>

\* The loop is exhausted: raise the timeout.
PollTimeout ==
    /\ pc = "loop"
    /\ ~LoopContinues(retry, max_retries)
    /\ PollEnds(TimeoutRaise)
    /\ UNCHANGED <<env, API_TOKEN, entry, session_id, task_uuid, max_retries,
                   retry, posts, fetches, sleeps, lastPost, lastGet, seen,
                   submitOut>>
    /\ UNCHANGED <<getTask, others>>

Next ==
    \/ \E sid \in SessionArgs : CallDetectObjects(sid)
    \/ \E sid \in SessionArgs : CallGetRegionDescriptions(sid)
    \/ \E sid \in SessionArgs : CallDetectObjectsAsync(sid)
    \/ \E sid \in SessionArgs : CallCreateRegionVlTask(sid)
    \/ \E t \in TaskIds, m \in 0..MaxAttempts : CallGetTaskResult(t, m)
    \/ DetectObjectsAsync
    \/ CreateRegionVlTask
    \/ GetTaskResultEnter
    \/ PollAttempt
    \/ PollSleep
    \/ PollTimeout

Spec == Init /\ [][Next]_vars

(* --------------------- building the payload alone ---------------------- *)
\* the single-call machine stays idle
seqVars == <<env, API_TOKEN, entry, pc, session_id, task_uuid, max_retries,
             retry, posts, fetches, sleeps, lastPost, lastGet, seen,
             submitOut, pollOut, out, getTask>>

\* A submit call with any arguments is about to build its payload.
PayloadInit ==
    /\ SeqInit /\ env = "tok"
    /\ bargs \in BuildArgs
    /\ payload = NoPayload
    /\ ThreadsIdle

\* detect_objects_async builds its payload (lines 50-67).
BuildDetectPayload ==
    /\ bargs.fn = "detect_objects_async"
    /\ payload = NoPayload
    /\ payload' = DetectPayload(bargs)
    /\ UNCHANGED <<bargs, seqVars, threadCtl, frames, called, heard, returned>>

\* create_region_vl_task builds its payload (lines 248-265).
BuildRegionPayload ==
    /\ bargs.fn = "create_region_vl_task"
    /\ payload = NoPayload
    /\ payload' = RegionPayload(bargs)
    /\ UNCHANGED <<bargs, seqVars, threadCtl, frames, called, heard, returned>>

PayloadNext == BuildDetectPayload \/ BuildRegionPayload

PayloadSpec == PayloadInit /\ [][PayloadNext]_vars
(* ------------------------ calls in several threads ---------------------- *)
\* largest max_retries a thread passes to get_task_result explicitly
MaxThreadAttempts == 2

\* the answers the service gives to the threads' requests: one for each way
\* a submission and an attempt can go
ThreadPostResponses ==
    { [BasePost EXCEPT !.http = 500] }
    \cup { [BasePost EXCEPT !.dataKeys = {"task_uuid"}, !.task_uuid = t] :
           t \in TaskIds }
ThreadGetResponses ==
    { StatusGet("running"),
      [StatusGet("success") EXCEPT !.dataKeys = @ \cup {"result", "session_id"},
                                   !.result = EmptyObjects,
                                   !.session_id = ServiceSession],
      [StatusGet("failed") EXCEPT !.dataKeys = @ \cup {"error"}, !.error = "x"] }

\* the session id thread t passes to detect_objects
ThreadSession(t) == IF t = 1 THEN "s1" ELSE None

\* variant: the locals are kept in one place shared by all calls
SharedFrame(t) == 1

\* The parameters and locals of a call live in the frame of that call.
FrameOf(t) == t

Local(t) == frames[FrameOf(t)]

SetLocal(t, f) == frames' = [frames EXCEPT ![FrameOf(t)] = f]

\* Thread t calls get_task_result(task, m).
ThreadCallGetTaskResult(t, task, m) ==
    /\ threadCtl[t].pc = "idle"
    /\ threadCtl' = [threadCtl EXCEPT ![t] = [entry |-> "get_task_result",
                                              pc |-> "poll"]]
    /\ SetLocal(t, [session_id |-> None, task_uuid |-> task,
                    max_retries |-> m, retry |-> 0])
    /\ called' = [called EXCEPT ![t] = [fn |-> "get_task_result",
                                        session_id |-> None, task_uuid |-> task,
                                        max_retries |-> m]]
    /\ UNCHANGED <<heard, returned, seqVars, bargs, payload>>

\* Thread t calls detect_objects(session_id = ThreadSession(t)).
ThreadCallDetectObjects(t) ==
    /\ threadCtl[t].pc = "idle"
    /\ threadCtl' = [threadCtl EXCEPT ![t] = [entry |-> "detect_objects",
                                              pc |-> "submit"]]
    /\ SetLocal(t, [NoFrame EXCEPT !.session_id = ThreadSession(t)])
    /\ called' = [called EXCEPT ![t] = [NoCall EXCEPT
                                           !.fn = "detect_objects",
                                           !.session_id = ThreadSession(t)]]
    /\ UNCHANGED <<heard, returned, seqVars, bargs, payload>>

\* The call of thread t ends with o (what get_task_result ended with, or
\* the exception of the submission).
ThreadEnds(t, o) ==
    /\ threadCtl' = [threadCtl EXCEPT ![t].pc = "done"]
    /\ returned' = [returned EXCEPT ![t] =
                       IF threadCtl[t].entry = "detect_objects"
                       THEN DetectFinish(o, Local(t).session_id)
                       ELSE o]

\* Thread t runs detect_objects_async inside detect_objects.
ThreadSubmit(t) ==
    /\ threadCtl[t].pc = "submit"
    /\ IF ~Truthy(API_TOKEN)
       THEN ThreadEnds(t, TokenError) /\ UNCHANGED <<heard, frames>>
       ELSE \E r \in ThreadPostResponses :
                /\ heard' = [heard EXCEPT ![t].post = r]
                /\ IF DetectSubmitOutcome(r).kind = "return"
                   THEN /\ threadCtl' = [threadCtl EXCEPT ![t].pc = "poll"]
                        /\ SetLocal(t, [Local(t) EXCEPT
                               !.task_uuid = PollArgument(DetectSubmitOutcome(r)),
                               !.max_retries = DefaultMaxRetries])
                        /\ UNCHANGED returned
                   ELSE ThreadEnds(t, DetectSubmitOutcome(r)) /\ UNCHANGED frames
    /\ UNCHANGED <<called, seqVars, bargs, payload>>

\* Thread t enters get_task_result: the token check.
ThreadEnter(t) ==
    /\ threadCtl[t].pc = "poll"
    /\ IF ~Truthy(API_TOKEN)
       THEN ThreadEnds(t, TokenError) /\ UNCHANGED frames
       ELSE /\ threadCtl' = [threadCtl EXCEPT ![t].pc = "loop"]
            /\ SetLocal(t, [Local(t) EXCEPT !.retry = 0])
            /\ UNCHANGED returned
    /\ UNCHANGED <<called, heard, seqVars, bargs, payload>>

\* Thread t makes one attempt.
ThreadAttempt(t) ==
    /\ threadCtl[t].pc = "loop"
    /\ LoopContinues(Local(t).retry, Local(t).max_retries)
    /\ \E r \in ThreadGetResponses :
        /\ heard' = [heard EXCEPT ![t].gets = @ + 1, ![t].last = r,
                                  ![t].task = Local(t).task_uuid]
        /\ IF AttemptOutcome(r).kind = "none"
           THEN /\ threadCtl' = [threadCtl EXCEPT ![t].pc = "sleep"]
                /\ UNCHANGED returned
           ELSE ThreadEnds(t, AttemptOutcome(r))
    /\ UNCHANGED <<frames, called, seqVars, bargs, payload>>

\* Thread t sleeps and takes the next value of its loop variable.
ThreadSleep(t) ==
    /\ threadCtl[t].pc = "sleep"
    /\ threadCtl' = [threadCtl EXCEPT ![t].pc = "loop"]
    /\ SetLocal(t, [Local(t) EXCEPT !.retry = @ + 1])
    /\ UNCHANGED <<called, heard, returned, seqVars, bargs, payload>>

\* The loop of thread t is exhausted.
ThreadTimeout(t) ==
    /\ threadCtl[t].pc = "loop"
    /\ ~LoopContinues(Local(t).retry, Local(t).max_retries)
    /\ ThreadEnds(t, TimeoutRaise)
    /\ UNCHANGED <<frames, called, heard, seqVars, bargs, payload>>

ThreadsInit == SeqInit /\ env = "tok" /\ PayloadIdle /\ ThreadsIdle

ThreadsNext ==
    \E t \in Threads :
        \/ \E task \in TaskIds, m \in 0..MaxThreadAttempts :
               ThreadCallGetTaskResult(t, task, m)
        \/ ThreadCallDetectObjects(t)
        \/ ThreadSubmit(t)
        \/ ThreadEnter(t)
        \/ ThreadAttempt(t)
        \/ ThreadSleep(t)
        \/ ThreadTimeout(t)

ThreadsSpec == ThreadsInit /\ [][ThreadsNext]_vars


(* ------------------------- vocabulary of the claims -------------------- *)
\* The GET was answered with HTTP 200 and an envelope with code 0 and a
\* data object.
WellFormed(r) ==
    /\ r.net = "ok" /\ r.http = 200 /\ r.body = "object"
    /\ "code" \in r.envKeys /\ r.code = 0
    /\ "data" \in r.envKeys /\ ~r.dataNull

HasStatus(r, s) == WellFormed(r) /\ "status" \in r.dataKeys /\ r.status = s

\* The GET was answered, but not with HTTP 200, or with an envelope whose
\* code is not 0 or that has no data field.
IsFault(r) ==
    /\ r.net = "ok"
    /\ \/ r.http # 200
       \/ r.body = "object" /\ ~("code" \in r.envKeys /\ r.code = 0)
       \/ r.body = "object" /\ "data" \notin r.envKeys

\* get_task_result has sent at least one GET
Polled == fetches > 0

(* ------------------------------- claims -------------------------------- *)
\* C1: when the service answers running on the first N fetches and success
\* with a result on fetch N+1 (N < max_retries), get_task_result returns
\* exactly that result after N+1 fetches and N sleeps; while the answers
\* are running it ends only by exhausting the budget.
C1_RunningThenSuccess ==
    (Polled /\ seen \subseteq {"running"}) =>
        /\ (HasStatus(lastGet, "success") /\ "result" \in lastGet.dataKeys) =>
              /\ pc = "done"
              /\ pollOut.kind = "return"
              /\ pollOut.result = lastGet.result
              /\ fetches = retry + 1
              /\ fetches <= max_retries
              /\ sleeps = fetches - 1
              /\ entry = "get_task_result" => out = pollOut
        /\ (HasStatus(lastGet, "running") /\ pc = "done") =>
              /\ pollOut.exc = "TaskTimeoutError"
              /\ fetches = max_retries

C1_Witness ==
    /\ entry = "get_task_result" /\ pc = "done"
    /\ seen = {"running"} /\ fetches = 3 /\ sleeps = 2
    /\ HasStatus(lastGet, "success")
    /\ lastGet.result = [kind |-> "map", objects |-> "list", items |-> <<"dict">>]
    /\ out.kind = "return" /\ out.result = lastGet.result

\* C2: when the service answers waiting on every fetch, get_task_result
\* raises the timeout after exactly max_retries fetches.
C2_WaitingTimesOut ==
    (Polled /\ seen \subseteq {"waiting"} /\ HasStatus(lastGet, "waiting")) =>
        /\ fetches <= max_retries
        /\ pollOut.kind # "return"
        /\ pc = "done" =>
              /\ pollOut = Raise("TaskTimeoutError", "")
              /\ fetches = max_retries
              /\ entry = "get_task_result" => out = pollOut

C2_Witness ==
    /\ entry = "get_task_result" /\ pc = "done"
    /\ seen = {"waiting"} /\ HasStatus(lastGet, "waiting")
    /\ max_retries = 3 /\ fetches = 3
    /\ out.kind = "raise" /\ out.exc = "TaskTimeoutError"

\* C3: the first well-formed response with status failed makes
\* get_task_result raise TaskFailedError carrying data.error (the default
\* message when error is absent), with no further fetch or sleep, whatever
\* budget remains.
C3_FailedRaisesAtOnce ==
    HasStatus(lastGet, "failed") =>
        /\ pc = "done"
        /\ pollOut.kind = "raise"
        /\ pollOut.exc = "TaskFailedError"
        /\ pollOut.detail = IF "error" \in lastGet.dataKeys
                            THEN lastGet.error ELSE "Unknown error"
        /\ fetches = retry + 1
        /\ sleeps = fetches - 1
        /\ entry = "get_task_result" => out = pollOut

C3_Witness ==
    /\ entry = "get_task_result" /\ pc = "done"
    /\ HasStatus(lastGet, "failed") /\ lastGet.error = "x"
    /\ fetches = 2 /\ max_retries = 3
    /\ out.exc = "TaskFailedError" /\ out.detail = "x"

\* C4: detect_objects never raises; when submission or polling fails it
\* returns ({"objects": []}, session_id) with the caller's session id.
C4_DetectFailsOpen ==
    entry = "detect_objects" =>
        /\ out.kind # "raise"
        /\ pc = "done" => out.kind = "return"
        /\ (pc = "done" /\ (submitOut.kind = "raise" \/ pollOut.kind = "raise")) =>
              /\ out.result = [kind |-> "map", objects |-> "list", items |-> <<>>]
              /\ out.session = session_id

C4_Witness ==
    /\ entry = "detect_objects" /\ pc = "done"
    /\ session_id = "s1"
    /\ pollOut.kind = "raise" /\ pollOut.exc = "TaskFailedError"
    /\ out.kind = "return" /\ out.session = "s1"

\* C5 (as claimed): detect_objects_async returns a task id exactly when the
\* response has HTTP 200, envelope code 0 and data.task_uuid, the id being
\* that task_uuid; in every other case it raises ApiError.
PostAccepted(r) ==
    /\ r.http = 200 /\ r.body = "object"
    /\ "code" \in r.envKeys /\ r.code = 0
    /\ "data" \in r.envKeys /\ ~r.dataNull
    /\ "task_uuid" \in r.dataKeys

C5_SubmitIffAccepted ==
    (entry = "detect_objects_async" /\ pc = "done" /\ lastPost.net = "ok"
        /\ (lastPost.http # 200 \/ lastPost.body = "object")) =>
        /\ out.kind = "return" <=> PostAccepted(lastPost)
        /\ out.kind = "return" => out.task = lastPost.task_uuid
        /\ ~PostAccepted(lastPost) => (out.kind = "raise" /\ out.exc = "ApiError")

\* C6 (as claimed): with DINOX_API_TOKEN unset or empty, the submit
\* functions and get_task_result raise ConfigurationError before any HTTP
\* request is sent.
C6_NoTokenNoRequest ==
    (env \in {None, ""} /\ entry \in Submitters \cup {"get_task_result"}) =>
        /\ posts = 0
        /\ fetches = 0
        /\ pc = "done" => (out.kind = "raise" /\ out.exc = "ConfigurationError")

\* C7: a response with HTTP status other than 200, with a code other than 0
\* or without data is a transient fault: get_task_result does not raise on
\* it, sleeps once, uses up one attempt and goes on; a later success within
\* the budget is returned.
C7_FaultIsTransient ==
    /\ IsFault(lastGet) =>
          /\ pc \in {"sleep", "loop", "done"}
          /\ pc = "sleep" => (sleeps = fetches - 1 /\ retry = fetches - 1)
          /\ pc = "loop" => (sleeps = fetches /\ retry = fetches)
          /\ pc \in {"sleep", "loop"} => pollOut.kind = "none"
          /\ pc = "done" => /\ pollOut = Raise("TaskTimeoutError", "")
                            /\ fetches = max_retries
                            /\ sleeps = max_retries
    /\ ("fault" \in seen /\ HasStatus(lastGet, "success")) =>
          /\ pc = "done"
          /\ pollOut.kind = "return"
          /\ "result" \in lastGet.dataKeys => pollOut.result = lastGet.result
          /\ fetches <= max_retries

C7_Witness ==
    /\ entry = "get_task_result" /\ pc = "done"
    /\ seen = {"fault"} /\ fetches = 3 /\ sleeps = 2
    /\ HasStatus(lastGet, "success") /\ "result" \in lastGet.dataKeys
    /\ out.kind = "return" /\ out.result = lastGet.result

\* C8: a well-formed response with status success ends polling at once:
\* get_task_result returns (result, session_id) when data has a result and
\* ({}, session_id) when it has none, session_id being the one in that
\* response; it never raises for a missing result.
C8_SuccessReturns ==
    HasStatus(lastGet, "success") =>
        /\ pc = "done"
        /\ pollOut.kind = "return"
        /\ pollOut.result = IF "result" \in lastGet.dataKeys
                            THEN lastGet.result
                            ELSE [kind |-> "map", objects |-> "absent", items |-> <<>>]
        /\ pollOut.session = IF "session_id" \in lastGet.dataKeys
                             THEN lastGet.session_id ELSE None
        /\ sleeps = fetches - 1
        /\ entry = "get_task_result" => out = pollOut

C8_Witness ==
    /\ entry = "get_task_result" /\ pc = "done"
    /\ HasStatus(lastGet, "success") /\ "result" \notin lastGet.dataKeys
    /\ lastGet.session_id = ServiceSession
    /\ out.kind = "return" /\ out.session = ServiceSession
    /\ out.result.objects = "absent"

\* C9: get_region_descriptions never raises; when submission or polling
\* fails it returns ({"objects": []}, session_id) with the caller's
\* session id.
C9_RegionFailsOpen ==
    entry = "get_region_descriptions" =>
        /\ out.kind # "raise"
        /\ pc = "done" => out.kind = "return"
        /\ (pc = "done" /\ (submitOut.kind = "raise" \/ pollOut.kind = "raise")) =>
              /\ out.result = [kind |-> "map", objects |-> "list", items |-> <<>>]
              /\ out.session = session_id

C9_Witness ==
    /\ entry = "get_region_descriptions" /\ pc = "done"
    /\ session_id = "s1"
    /\ pollOut.kind = "raise" /\ pollOut.exc = "TaskTimeoutError"
    /\ out.kind = "return" /\ out.session = "s1"

\* C10: submission is never retried: a call sends at most one POST, and a
\* failed submission ends the call at once, with no status fetch and no
\* sleep.
C10_NoSubmitRetry ==
    /\ posts <= 1
    /\ submitOut.kind = "raise" =>
          /\ pc = "done"
          /\ posts <= 1
          /\ fetches = 0
          /\ sleeps = 0

C10_Witness ==
    /\ entry = "get_region_descriptions" /\ pc = "done"
    /\ posts = 1 /\ lastPost.http = 500
    /\ submitOut.kind = "raise" /\ fetches = 0 /\ sleeps = 0

\* The response is well formed and its status is absent or none of
\* success, failed, waiting, running.
IsUnknown(r) ==
    /\ WellFormed(r)
    /\ \/ "status" \notin r.dataKeys
       \/ r.status \notin {"success", "failed", "waiting", "running"}

\* C11: a well-formed response with an unrecognised or absent status is
\* handled like waiting: one sleep, one attempt used, polling goes on; a
\* run of waiting and unrecognised answers ends as a run of waiting answers
\* does, in the timeout after exactly max_retries fetches, and a success
\* after an unrecognised answer is returned.
C11_UnknownLikeWaiting ==
    /\ IsUnknown(lastGet) =>
          /\ pc \in {"sleep", "loop", "done"}
          /\ pc = "sleep" => (sleeps = fetches - 1 /\ retry = fetches - 1)
          /\ pc = "loop" => (sleeps = fetches /\ retry = fetches)
          /\ pc \in {"sleep", "loop"} => pollOut.kind = "none"
          /\ pc = "done" => /\ pollOut = Raise("TaskTimeoutError", "")
                            /\ fetches = max_retries
                            /\ sleeps = max_retries
    /\ (Polled /\ seen \subseteq {"waiting", "unknown"}
          /\ (IsUnknown(lastGet) \/ HasStatus(lastGet, "waiting"))) =>
          /\ fetches <= max_retries
          /\ pollOut.kind # "return"
          /\ pc = "done" => (pollOut.exc = "TaskTimeoutError" /\ fetches = max_retries)
    /\ ("unknown" \in seen /\ HasStatus(lastGet, "success")) =>
          (pc = "done" /\ pollOut.kind = "return" /\ fetches <= max_retries)

C11_Witness ==
    /\ entry = "get_task_result" /\ pc = "done"
    /\ seen = {"waiting", "unknown"} /\ lastGet = StatusGet("queued")
    /\ max_retries = 3 /\ fetches = 3 /\ sleeps = 3
    /\ out.kind = "raise" /\ out.exc = "TaskTimeoutError"

\* C12 (as claimed): whatever the service answers (bad HTTP status, non-zero
\* code, missing or null data, any status), get_task_result ends with an
\* error only as TaskFailedError after a failed response or as
\* TaskTimeoutError after max_retries fetches.
C12_OnlyFailedOrTimeout ==
    (Polled /\ lastGet.net = "ok" /\ pollOut.kind = "raise"
        /\ (lastGet.http # 200 \/ lastGet.body = "object")) =>
        \/ pollOut.exc = "TaskFailedError" /\ HasStatus(lastGet, "failed")
        \/ pollOut.exc = "TaskTimeoutError" /\ fetches = max_retries

\* detect_objects came to its except clause: submission raised, polling
\* raised, or the printing of the result raised
DetectFailed ==
    \/ submitOut.kind = "raise"
    \/ pollOut.kind = "raise"
    \/ pollOut.kind = "return" /\ PrintRaises(pollOut.result)

\* the value is a mapping with an objects list
HasObjectsList(res) == res.kind = "map" /\ res.objects = "list"

\* C14 (as claimed): every result detect_objects returns is a mapping that
\* contains an objects list.
C14_AlwaysObjectsList ==
    (entry = "detect_objects" /\ pc = "done") => HasObjectsList(out.result)

\* C14 (amended): on the failure path detect_objects returns
\* {"objects": []}; on the success path it returns the result of
\* get_task_result unchanged, which contains an objects list exactly when
\* the service's result does: it is {} when data has no result field.
C14_ObjectsListUnlessServiceOmits ==
    (entry = "detect_objects" /\ pc = "done") =>
        /\ DetectFailed =>
              out.result = [kind |-> "map", objects |-> "list", items |-> <<>>]
        /\ ~DetectFailed =>
              /\ out.result = pollOut.result
              /\ out.result = IF "result" \in lastGet.dataKeys
                              THEN lastGet.result
                              ELSE [kind |-> "map", objects |-> "absent",
                                    items |-> <<>>]
              /\ "result" \notin lastGet.dataKeys => ~HasObjectsList(out.result)
              /\ HasObjectsList(out.result) =>
                    \A i \in 1..Len(out.result.items) : out.result.items[i] = "dict"

C14_Witness ==
    /\ entry = "detect_objects" /\ pc = "done"
    /\ HasStatus(lastGet, "success") /\ "result" \notin lastGet.dataKeys
    /\ out.kind = "return" /\ out.result.kind = "map"
    /\ out.result.objects = "absent"

\* C15 (as claimed): get_task_result always ends in a return, a
\* TaskFailedError or a TaskTimeoutError, after at most max_retries fetches
\* and sleeps; with max_retries = 0 it raises TaskTimeoutError without a
\* fetch.
C15_EndsInReturnFailedOrTimeout ==
    (entry = "get_task_result" /\ lastGet.net # "error"
        /\ (lastGet.http # 200 \/ lastGet.body = "object")) =>
        /\ fetches <= max_retries
        /\ sleeps <= max_retries
        /\ pc = "done" =>
              \/ out.kind = "return"
              \/ out.kind = "raise"
                 /\ out.exc \in {"TaskFailedError", "TaskTimeoutError"}
        /\ (pc = "done" /\ max_retries = 0) =>
              (out.exc = "TaskTimeoutError" /\ fetches = 0)

\* C16: in detect_objects and get_region_descriptions the one POST comes
\* before every GET, every GET asks for the task id the submission
\* returned, and no GET is sent when the submission returned no id.
C16_SubmitThenPollSameTask ==
    entry \in Wrappers =>
        /\ Polled => /\ posts = 1
                     /\ submitOut.kind = "return"
                     /\ PostAccepted(lastPost)
                     /\ getTask = lastPost.task_uuid
        /\ submitOut.kind # "return" => (fetches = 0 /\ getTask = "")

C16_Witness ==
    /\ entry = "detect_objects" /\ pc = "done"
    /\ posts = 1 /\ lastPost.task_uuid = "t2"
    /\ fetches = 3 /\ getTask = "t2"

\* C17 (as claimed): when submission succeeds and get_task_result returns
\* (result, session_id), detect_objects returns exactly that pair, for
\* every result including {} and null.
C17_DetectPassesPollResult ==
    (entry = "detect_objects" /\ pc = "done" /\ pollOut.kind = "return") =>
        /\ out.kind = "return"
        /\ out.result = pollOut.result
        /\ out.session = pollOut.session

SoloPoll(max_, gets_, last_) ==
    IF gets_ > 0 /\ AttemptOutcome(last_).kind # "none"
    THEN AttemptOutcome(last_)
    ELSE TimeoutRaise

SoloOutcome(fn, sid, max_, post, gets_, last_) ==
    IF fn = "get_task_result" THEN SoloPoll(max_, gets_, last_)
    ELSE IF DetectSubmitOutcome(post).kind = "raise" THEN Fallback(sid)
    ELSE DetectFinish(SoloPoll(DefaultMaxRetries, gets_, last_), sid)

\* the single call ends as SoloOutcome says
SoloMatchesSingleCall ==
    (pc = "done" /\ entry \in {"get_task_result", "detect_objects"}) =>
        /\ out = SoloOutcome(entry, session_id, max_retries, lastPost,
                             fetches, lastGet)
        /\ (Polled /\ AttemptOutcome(lastGet).kind = "none") =>
              fetches = max_retries

\* the task id and the budget that belong to the call of thread t
OwnTask(t) ==
    IF called[t].fn = "get_task_result" THEN called[t].task_uuid
    ELSE heard[t].post.task_uuid
OwnBudget(t) ==
    IF called[t].fn = "get_task_result" THEN called[t].max_retries
    ELSE DefaultMaxRetries

\* C13: calls interleaved in two threads are independent: every GET of a
\* thread asks for that thread's own task id, a thread never sends more GETs
\* than its own budget, and its call ends exactly as it does alone against
\* the answers its own requests received.
C13_ThreadsIndependent ==
    \A t \in Threads :
        /\ heard[t].gets > 0 => heard[t].task = OwnTask(t)
        /\ heard[t].gets <= OwnBudget(t)
        /\ threadCtl[t].pc # "done" => returned[t] = NoOut
        /\ threadCtl[t].pc = "done" =>
              /\ returned[t] = SoloOutcome(called[t].fn, called[t].session_id,
                                           called[t].max_retries, heard[t].post,
                                           heard[t].gets, heard[t].last)
              /\ (heard[t].gets > 0 /\ AttemptOutcome(heard[t].last).kind = "none")
                    => heard[t].gets = OwnBudget(t)
              /\ (heard[t].gets = 0 /\ returned[t].exc = "TaskTimeoutError")
                    => OwnBudget(t) = 0

C13_Witness ==
    /\ threadCtl[1].pc = "done" /\ threadCtl[2].pc = "done"
    /\ called[1].fn = "detect_objects" /\ called[2].fn = "get_task_result"
    /\ heard[1].task = "t1" /\ heard[2].task = "t2"
    /\ heard[1].gets = 2 /\ heard[2].gets = 2
    /\ returned[1].kind = "return" /\ returned[1].session = ServiceSession
    /\ returned[2].exc = "TaskTimeoutError"
====
